---- MODULE Spec2Model ----
(***************************************************************************)
(* Model of src/addon.py, the Blender add-on that exports the active mesh  *)
(* as a flat binary ".msh" file for a LOVE Mesh.                           *)
(*                                                                         *)
(* Conventions.  Python's None is a record whose field "none" is TRUE.     *)
(* Python sequences are 0-based; here they are 1-based, so a loop index or *)
(* vertex index i of the source is i+1 in the model.  A str is a sequence  *)
(* of code points, a bytes value is a sequence of numbers 0..255.  The     *)
(* floats of the model are the integer-valued floats; they are packed to   *)
(* their IEEE-754 single precision bytes, a zero always as +0.0 (the sign  *)
(* of a zero is not modelled).                                             *)
(*                                                                         *)
(* The host (Blender) is modelled as far as the add-on reads it: the       *)
(* active object, its evaluated mesh and its material slots.  One run of   *)
(* the operator is modelled: the file dialog asks texture_items for the    *)
(* textures, the user sets the properties, and execute runs.  When         *)
(* texture_items raises, the run ends in "RAISED": what the host does with *)
(* the exception is not in the source.                                     *)
(***************************************************************************)
EXTENDS Integers, Sequences, FiniteSets, TLC

VARIABLES
    obj,            \* context.active_object
    items,          \* identifiers of the texture_name enum, from texture_items
    self,           \* the operator's properties
    pc,             \* position in the operator's life
    axis_matrix,    \* execute: axis_matrix
    layout,         \* execute: layout
    stride,         \* execute: stride
    vertex_count,   \* execute: vertex_count
    texture_name,   \* execute: texture_name (the encoded bytes)
    out,            \* execute: out, the bytearray
    attr,           \* execute: index in layout of the attribute record being written
    tri,            \* execute: index of the loop triangle being written
    corner,         \* execute: index in tri.loops of the corner being written
    file,           \* the file at self.filepath
    writes,         \* number of times the file was written
    report          \* what self.report was given

vars == <<obj, items, self, pc, axis_matrix, layout, stride, vertex_count,
          texture_name, out, attr, tri, corner, file, writes, report>>

(***************************************************************************)
(* Bounds of the model.                                                    *)
(***************************************************************************)
\* most loop triangles of an exported mesh
MaxTris == 2

\* the positions the transform is tried on have coordinates in -MaxCoord..MaxCoord
MaxCoord == 1

(***************************************************************************)
(* Sequences and numbers.                                                  *)
(***************************************************************************)
RECURSIVE Pow2(_)
Pow2(k) == IF k = 0 THEN 1 ELSE 2 * Pow2(k - 1)

RECURSIVE FloorLog2(_)
FloorLog2(a) == IF a < 2 THEN 0 ELSE 1 + FloorLog2(a \div 2)

Abs(n) == IF n < 0 THEN -n ELSE n

Reverse(s) == [i \in 1..Len(s) |-> s[Len(s) + 1 - i]]

RECURSIVE Concat(_)
Concat(ss) == IF ss = <<>> THEN <<>> ELSE Head(ss) \o Concat(Tail(ss))

RECURSIVE Sum(_)
Sum(s) == IF s = <<>> THEN 0 ELSE Head(s) + Sum(Tail(s))

(***************************************************************************)
(* struct: a format is a byte order and a sequence of codes, each a        *)
(* record [c, n]: "f" float, "I" unsigned int, "B" unsigned char, and "s"  *)
(* a bytes field of n bytes.  With the orders "<" and ">" there is no      *)
(* padding.                                                                *)
(***************************************************************************)
Code(c) == [c |-> c, n |-> 1]
Bytes(n) == [c |-> "s", n |-> n]

CodeSize(code) ==
    CASE code.c = "f" -> 4
      [] code.c = "I" -> 4
      [] code.c = "B" -> 1
      [] code.c = "s" -> code.n

calcsize(codes) == Sum([i \in 1..Len(codes) |-> CodeSize(codes[i])])

\* the four bytes of an IEEE-754 single, most significant first
FloatBytes(n) ==
    IF n = 0 THEN <<0, 0, 0, 0>>
    ELSE LET a == Abs(n)
             e == FloorLog2(a)
             s == IF n < 0 THEN 1 ELSE 0
             biased == e + 127
             mant == (a - Pow2(e)) * Pow2(23 - e)
         IN  << s * 128 + (biased \div 2),
                (biased % 2) * 128 + (mant \div 65536),
                (mant \div 256) % 256,
                mant % 256 >>

\* the four bytes of an unsigned 32-bit integer, most significant first
UIntBytes(v) ==
    << (v \div 16777216) % 256, (v \div 65536) % 256, (v \div 256) % 256, v % 256 >>

InOrder(order, bigEndianBytes) ==
    IF order = ">" THEN bigEndianBytes ELSE Reverse(bigEndianBytes)

PackOne(order, code, v) ==
    CASE code.c = "f" -> InOrder(order, FloatBytes(v))
      [] code.c = "I" -> InOrder(order, UIntBytes(v))
      [] code.c = "B" -> <<v % 256>>
      [] code.c = "s" -> [i \in 1..code.n |-> IF i <= Len(v) THEN v[i] ELSE 0]

\* struct.pack(order + codes, *values)
pack(order, codes, values) ==
    Concat([i \in 1..Len(codes) |-> PackOne(order, codes[i], values[i])])

(***************************************************************************)
(* str.encode("utf-8")                                                     *)
(***************************************************************************)
EncodeChar(cp) ==
    IF cp < 128 THEN <<cp>>
    ELSE IF cp < 2048 THEN <<192 + (cp \div 64), 128 + (cp % 64)>>
    ELSE <<224 + (cp \div 4096), 128 + ((cp \div 64) % 64), 128 + (cp % 64)>>

encode(str) == Concat([i \in 1..Len(str) |-> EncodeChar(str[i])])

(***************************************************************************)
(* GPU attribute definitions and struct definitions (lines 22-47).         *)
(***************************************************************************)
DATAFORMAT == [FLOAT_VEC2 |-> 1, FLOAT_VEC3 |-> 2, FLOAT_VEC4 |-> 3]

ATTRIBUTE == [VertexPosition |-> 0, VertexTexCoord |-> 1, VertexColor |-> 2]

\* the dict in insertion order
ATTRIBUTE_TABLE ==
    << [name |-> "VertexPosition", semantic |-> ATTRIBUTE.VertexPosition,
        dataformat |-> DATAFORMAT.FLOAT_VEC3,
        fmt |-> <<Code("f"), Code("f"), Code("f")>>, location |-> 0],
       [name |-> "VertexTexCoord", semantic |-> ATTRIBUTE.VertexTexCoord,
        dataformat |-> DATAFORMAT.FLOAT_VEC2,
        fmt |-> <<Code("f"), Code("f")>>, location |-> 1],
       [name |-> "VertexColor", semantic |-> ATTRIBUTE.VertexColor,
        dataformat |-> DATAFORMAT.FLOAT_VEC4,
        fmt |-> <<Code("f"), Code("f"), Code("f"), Code("f")>>, location |-> 2] >>

\* b"MSH0"
HEADER_MAGIC == <<77, 83, 72, 48>>

\* struct.Struct("<4sIIIIII")
HEADER_STRUCT ==
    [order |-> "<",
     codes |-> <<Bytes(4), Code("I"), Code("I"), Code("I"), Code("I"), Code("I"),
                 Code("I")>>]

\* struct.Struct("<BBB")
ATTRIBUTE_STRUCT == [order |-> "<", codes |-> <<Code("B"), Code("B"), Code("B")>>]

AXIS_DATA == { <<"X">>, <<"Y">>, <<"Z">>, <<"-", "X">>, <<"-", "Y">>, <<"-", "Z">> }

ENDIANS == { <<"Little", "<">>, <<"Big", ">">> }

(***************************************************************************)
(* Vectors and matrices of mathutils: a Vector is a triple, a Matrix a     *)
(* triple of rows.                                                         *)
(***************************************************************************)
cross(a, b) ==
    << a[2] * b[3] - a[3] * b[2],
       a[3] * b[1] - a[1] * b[3],
       a[1] * b[2] - a[2] * b[1] >>

transposed(m) == [i \in 1..3 |-> [j \in 1..3 |-> m[j][i]]]

\* m @ v
MatVec(m, v) == [i \in 1..3 |-> m[i][1] * v[1] + m[i][2] * v[2] + m[i][3] * v[3]]

axis_vector(axis) ==
    LET sign == IF Head(axis) = "-" THEN -1 ELSE 1
        last == axis[Len(axis)]
    IN  CASE last = "X" -> <<sign, 0, 0>>
          [] last = "Y" -> <<0, sign, 0>>
          [] last = "Z" -> <<0, 0, sign>>

\* the rows are taken in the order right, forward, up
build_axis_matrix_rfu(forward, up) ==
    LET fwd == axis_vector(forward)
        upv == axis_vector(up)
        right == cross(fwd, upv)
    IN  transposed(<<right, fwd, upv>>)

\* the matrix is not transposed
build_axis_matrix_rows(forward, up) ==
    LET fwd == axis_vector(forward)
        upv == axis_vector(up)
        right == cross(fwd, upv)
    IN  <<right, upv, fwd>>

build_axis_matrix(forward, up) ==
    LET fwd == axis_vector(forward)
        upv == axis_vector(up)
        right == cross(fwd, upv)
    IN  transposed(<<right, upv, fwd>>)

(***************************************************************************)
(* build_attribute_layout: the layout and the stride.                      *)
(***************************************************************************)
LayoutEntry(a) ==
    [name |-> a.name, semantic |-> a.semantic, dataformat |-> a.dataformat,
     location |-> a.location, fmt |-> a.fmt]

\* offset = size instead of offset += size
build_attribute_layout_last ==
    [layout |-> [i \in 1..Len(ATTRIBUTE_TABLE) |-> LayoutEntry(ATTRIBUTE_TABLE[i])],
     offset |-> calcsize(ATTRIBUTE_TABLE[Len(ATTRIBUTE_TABLE)].fmt)]

build_attribute_layout ==
    [layout |-> [i \in 1..Len(ATTRIBUTE_TABLE) |-> LayoutEntry(ATTRIBUTE_TABLE[i])],
     offset |-> Sum([i \in 1..Len(ATTRIBUTE_TABLE) |-> calcsize(ATTRIBUTE_TABLE[i].fmt)])]

(***************************************************************************)
(* The host's data: meshes, materials and objects that can be the active   *)
(* object when the operator runs.                                          *)
(***************************************************************************)
NoLayer == [none |-> TRUE, data |-> <<>>]

Layer(data) == [none |-> FALSE, data |-> data]

\* One polygon of n+2 corners, triangulated as a fan of n loop triangles (corner
\* 1 is shared, so the loops of a triangle are not consecutive); the loops run
\* against the vertices, so a loop's index is not its vertex's index.
NumLoops(n) == IF n = 0 THEN 0 ELSE n + 2

Mesh(n, hasUV, hasColor) ==
    [vertices |-> [i \in 1..NumLoops(n) |-> <<i, -(i + 1), 2 * (i - 1)>>],
     loops |-> [l \in 1..NumLoops(n) |-> [vertex_index |-> NumLoops(n) + 1 - l]],
     loop_triangles |-> [k \in 1..n |-> [loops |-> <<1, k + 1, k + 2>>]],
     uv_layers |->
        IF hasUV
        THEN Layer([l \in 1..NumLoops(n) |-> [uv |-> <<l % 3, (l + 1) % 2>>]])
        ELSE NoLayer,
     vertex_colors |->
        IF hasColor
        THEN Layer([l \in 1..NumLoops(n) |-> [color |-> <<1, l % 2, 0, 1>>]])
        ELSE NoLayer]

Meshes == { Mesh(n, u, c) : n \in 0..MaxTris, u \in BOOLEAN, c \in BOOLEAN }

\* "/t/b" \o O-umlaut \o ".p"  and  "/" \o euro sign
PathA == <<47, 116, 47, 98, 214, 46, 112>>
PathB == <<47, 8364>>

Image(filepath) == [none |-> FALSE, filepath |-> filepath]
NoImage == [none |-> TRUE, filepath |-> <<>>]

Node(type, image) == [type |-> type, image |-> image]

Material(use_nodes, nodes) == [none |-> FALSE, use_nodes |-> use_nodes, nodes |-> nodes]
NoMaterial == [none |-> TRUE, use_nodes |-> FALSE, nodes |-> <<>>]

Slot(material) == [material |-> material]

TexturedMaterial(path) ==
    Material(TRUE, <<Node("BSDF_PRINCIPLED", NoImage), Node("TEX_IMAGE", Image(path))>>)

\* the material slots an exported object may have
SlotConfigs ==
    { <<>>,
      << Slot(NoMaterial), Slot(Material(FALSE, <<>>)),
         Slot(TexturedMaterial(PathA)), Slot(TexturedMaterial(PathB)) >>,
      << Slot(Material(TRUE, <<Node("BSDF_PRINCIPLED", NoImage)>>)) >>,
      << Slot(TexturedMaterial(PathA)),
         Slot(Material(TRUE, <<Node("TEX_IMAGE", NoImage)>>)) >> }

Object(type, mesh, slots) ==
    [none |-> FALSE, type |-> type, mesh |-> mesh, material_slots |-> slots]
NoObject == [none |-> TRUE, type |-> "", mesh |-> Mesh(0, FALSE, FALSE), material_slots |-> <<>>]

Objects ==
    {NoObject, Object("CAMERA", Mesh(0, FALSE, FALSE), <<>>)}
    \cup { Object("MESH", m, s) : m \in Meshes, s \in SlotConfigs }

(***************************************************************************)
(* pathlib and bpy.path on absolute, normalised paths: abspath and resolve *)
(* leave such a path as it is; name is its last component, and the display *)
(* name is taken to be the name up to its last dot.                        *)
(***************************************************************************)
RECURSIVE LastIndex(_, _)
LastIndex(s, ch) ==
    IF s = <<>> THEN 0
    ELSE IF s[Len(s)] = ch THEN Len(s)
    ELSE LastIndex(SubSeq(s, 1, Len(s) - 1), ch)

PathName(path) == SubSeq(path, LastIndex(path, 47) + 1, Len(path))

display_name(path) ==
    LET name == PathName(path)
        dot == LastIndex(name, 46)
    IN  IF dot > 1 THEN SubSeq(name, 1, dot - 1) ELSE name

(***************************************************************************)
(* get_mesh_textures and texture_items.  A Python exception leaves the     *)
(* function: the result says that it raised, and nothing else.             *)
(***************************************************************************)
Raised == [raised |-> TRUE, value |-> <<>>]
Returned(v) == [raised |-> FALSE, value |-> v]

\* next((n for n in tree_nodes if n.type == "TEX_IMAGE"), None)
RECURSIVE FirstTexImage(_)
FirstTexImage(nodes) ==
    IF nodes = <<>> THEN [none |-> TRUE, image |-> NoImage]
    ELSE IF Head(nodes).type = "TEX_IMAGE"
         THEN [none |-> FALSE, image |-> Head(nodes).image]
         ELSE FirstTexImage(Tail(nodes))

RECURSIVE MeshTextures(_, _)
MeshTextures(slots, textures) ==
    IF slots = <<>> THEN Returned(textures)
    ELSE LET material == Head(slots).material
         IN  IF material.none \/ ~material.use_nodes
             THEN MeshTextures(Tail(slots), textures)
             ELSE LET node == FirstTexImage(material.nodes)
                  IN  IF node.none \/ node.image.none
                      THEN Raised    \* AttributeError: None has no such attribute
                      ELSE MeshTextures(Tail(slots),
                              Append(textures,
                                     <<display_name(node.image.filepath),
                                       PathName(node.image.filepath)>>))

get_mesh_textures(o) == MeshTextures(o.material_slots, <<>>)

texture_items(context_obj) ==
    IF context_obj.none \/ context_obj.type # "MESH"
    THEN Returned(<<>>)
    ELSE LET textures == get_mesh_textures(context_obj)
         IN  IF textures.raised THEN Raised
             ELSE Returned([i \in 1..Len(textures.value) |->
                              <<textures.value[i][2], textures.value[i][1], <<>>>>])

(***************************************************************************)
(* The operator's properties.                                              *)
(***************************************************************************)
DefaultProperties ==
    [flip_uv_u |-> FALSE, flip_uv_v |-> FALSE, forward_axis |-> <<"Y">>,
     up_axis |-> <<"Z">>, texture_name |-> <<>>, endian |-> "<"]

\* the identifiers the texture_name enum can hold: those of its items, and the
\* empty string when it has none
TextureChoices(its) ==
    IF its = <<>> THEN {<<>>} ELSE { its[i][1] : i \in 1..Len(its) }

EndianChoices == { e[2] : e \in ENDIANS }

Properties(its) ==
    [flip_uv_u : BOOLEAN, flip_uv_v : BOOLEAN, forward_axis : AXIS_DATA,
     up_axis : AXIS_DATA, texture_name : TextureChoices(its), endian : EndianChoices]

(***************************************************************************)
(* get_uv and get_color.                                                   *)
(***************************************************************************)
\* the flips are applied before the layer is looked at
get_uv_flip_first(slf, layer, index) ==
    LET uv == IF layer.none THEN <<0, 0>> ELSE layer.data[index].uv
        u == IF slf.flip_uv_u THEN 1 - uv[1] ELSE uv[1]
        v == IF slf.flip_uv_v THEN 1 - uv[2] ELSE uv[2]
    IN  <<u, v>>

get_uv(slf, layer, index) ==
    IF layer.none THEN <<0, 0>>
    ELSE LET uv == layer.data[index].uv
             u == IF slf.flip_uv_u THEN 1 - uv[1] ELSE uv[1]
             v == IF slf.flip_uv_v THEN 1 - uv[2] ELSE uv[2]
         IN  <<u, v>>

get_color(slf, layer, index) ==
    IF layer.none THEN <<1, 1, 1, 1>> ELSE layer.data[index].color

(***************************************************************************)
(* execute, piece by piece.                                                *)
(***************************************************************************)
\* len(mesh.loop_triangles) instead of the number of their loops
VertexCount_triangles(mesh) == Len(mesh.loop_triangles)

\* sum(len(tri.loops) for tri in mesh.loop_triangles)
VertexCount(mesh) ==
    Sum([k \in 1..Len(mesh.loop_triangles) |-> Len(mesh.loop_triangles[k].loops)])

\* the length of the str is packed instead of the length of its bytes
HeaderFields_str_length(slf, count, strd, lay, name) ==
    << HEADER_MAGIC, count, strd, Len(lay), calcsize(ATTRIBUTE_STRUCT.codes),
       Len(slf.texture_name), calcsize(HEADER_STRUCT.codes) >>

\* the values line 162 packs: magic, vertex_count, stride, len(layout),
\* attributes_size, len(texture_name), header_size
HeaderFields(slf, count, strd, lay, name) ==
    << HEADER_MAGIC, count, strd, Len(lay), calcsize(ATTRIBUTE_STRUCT.codes),
       Len(name), calcsize(HEADER_STRUCT.codes) >>

HeaderBytes(slf, count, strd, lay, name) ==
    pack(HEADER_STRUCT.order, HEADER_STRUCT.codes, HeaderFields(slf, count, strd, lay, name))

\* line 166
AttributeRecordBytes(entry) ==
    pack(ATTRIBUTE_STRUCT.order, ATTRIBUTE_STRUCT.codes,
         <<entry.semantic, entry.dataformat, entry.location>>)

\* lines 165-166
AttributeTableBytes(lay) == Concat([i \in 1..Len(lay) |-> AttributeRecordBytes(lay[i])])

\* the corners of a triangle are taken last to first
LoopIndex_reversed(mesh, t, c) ==
    mesh.loop_triangles[t].loops[Len(mesh.loop_triangles[t].loops) + 1 - c]

\* the loop index the two for loops of lines 168-169 are at
LoopIndex(mesh, t, c) == mesh.loop_triangles[t].loops[c]

\* what one attribute of the layout appends for a vertex (lines 178-184)
AttributeBytes(order, entry, pos, uv, color) ==
    CASE entry.semantic = ATTRIBUTE.VertexPosition -> pack(order, entry.fmt, pos)
      [] entry.semantic = ATTRIBUTE.VertexTexCoord -> pack(order, entry.fmt, uv)
      [] entry.semantic = ATTRIBUTE.VertexColor -> pack(order, entry.fmt, color)
      [] OTHER -> <<>>

\* the vertex floats are always packed little-endian
VertexBytes_little(slf, mesh, matrix, lay, loop_index) ==
    LET vert == mesh.vertices[mesh.loops[loop_index].vertex_index]
        pos == MatVec(matrix, vert)
        uv == get_uv(slf, mesh.uv_layers, loop_index)
        color == get_color(slf, mesh.vertex_colors, loop_index)
    IN  Concat([i \in 1..Len(lay) |-> AttributeBytes("<", lay[i], pos, uv, color)])

\* the body of the inner loop, lines 170-184
VertexBytes(slf, mesh, matrix, lay, loop_index) ==
    LET vert == mesh.vertices[mesh.loops[loop_index].vertex_index]
        pos == MatVec(matrix, vert)
        uv == get_uv(slf, mesh.uv_layers, loop_index)
        color == get_color(slf, mesh.vertex_colors, loop_index)
    IN  Concat([i \in 1..Len(lay) |-> AttributeBytes(slf.endian, lay[i], pos, uv, color)])

\* lines 186-187
NameBytes(name) ==
    IF Len(name) # 0 THEN pack("<", <<Bytes(Len(name))>>, <<name>>) ELSE <<>>

\* the corners in the order the loops of lines 168-169 visit them
Corners(mesh) ==
    Concat([t \in 1..Len(mesh.loop_triangles) |->
              [c \in 1..Len(mesh.loop_triangles[t].loops) |-> LoopIndex(mesh, t, c)]])

\* the whole buffer execute assembles for a mesh object (lines 147-187)
Serialize(slf, mesh) ==
    LET matrix == build_axis_matrix(slf.forward_axis, slf.up_axis)
        built == build_attribute_layout
        name == encode(slf.texture_name)
        loops == Corners(mesh)
    IN  HeaderBytes(slf, VertexCount(mesh), built.offset, built.layout, name)
        \o AttributeTableBytes(built.layout)
        \o Concat([k \in 1..Len(loops) |->
                     VertexBytes(slf, mesh, matrix, built.layout, loops[k])])
        \o NameBytes(name)

(***************************************************************************)
(* The state machine.                                                      *)
(***************************************************************************)
NoFile == [exists |-> FALSE, data |-> <<>>]

ZeroMatrix == <<<<0, 0, 0>>, <<0, 0, 0>>, <<0, 0, 0>>>>

Init ==
    /\ obj \in Objects
    /\ items = <<>>
    /\ self = DefaultProperties
    /\ pc = "panel"
    /\ axis_matrix = ZeroMatrix
    /\ layout = <<>>
    /\ stride = 0
    /\ vertex_count = 0
    /\ texture_name = <<>>
    /\ out = <<>>
    /\ attr = 0
    /\ tri = 0
    /\ corner = 0
    /\ file = NoFile
    /\ writes = 0
    /\ report = <<>>

\* The file-select panel is drawn: the host calls texture_items for the items of
\* the texture_name enum.  An exception of get_mesh_textures leaves texture_items.
TextureItems ==
    /\ pc = "panel"
    /\ LET r == texture_items(obj)
       IN  IF r.raised
           THEN /\ pc' = "RAISED"
                /\ items' = items
           ELSE /\ pc' = "properties"
                /\ items' = r.value
    /\ UNCHANGED <<obj, self, axis_matrix, layout, stride, vertex_count, texture_name,
                   out, attr, tri, corner, file, writes, report>>

\* The user sets the properties and confirms.
SetProperties ==
    /\ pc = "properties"
    /\ self' \in Properties(items)
    /\ pc' = "execute"
    /\ UNCHANGED <<obj, items, axis_matrix, layout, stride, vertex_count, texture_name,
                   out, attr, tri, corner, file, writes, report>>

\* execute, lines 142-145: no mesh object is selected
ExecuteCancel ==
    /\ pc = "execute"
    /\ obj.none \/ obj.type # "MESH"
    /\ report' = Append(report, <<"ERROR", "Select a mesh object">>)
    /\ pc' = "CANCELLED"
    /\ UNCHANGED <<obj, items, self, axis_matrix, layout, stride, vertex_count,
                   texture_name, out, attr, tri, corner, file, writes>>

\* execute, lines 147-162: the locals and the header
ExecuteHeader ==
    /\ pc = "execute"
    /\ ~(obj.none \/ obj.type # "MESH")
    /\ LET built == build_attribute_layout
           count == VertexCount(obj.mesh)
           name == encode(self.texture_name)
       IN  /\ axis_matrix' = build_axis_matrix(self.forward_axis, self.up_axis)
           /\ layout' = built.layout
           /\ stride' = built.offset
           /\ vertex_count' = count
           /\ texture_name' = name
           /\ out' = out \o HeaderBytes(self, count, built.offset, built.layout, name)
    /\ attr' = 1
    /\ pc' = "attributes"
    /\ UNCHANGED <<obj, items, self, tri, corner, file, writes, report>>

\* execute, lines 165-166: one pass of the loop over the layout
ExecuteAttribute ==
    /\ pc = "attributes"
    /\ attr <= Len(layout)
    /\ out' = out \o AttributeRecordBytes(layout[attr])
    /\ attr' = attr + 1
    /\ UNCHANGED <<obj, items, self, pc, axis_matrix, layout, stride, vertex_count,
                   texture_name, tri, corner, file, writes, report>>

\* execute, line 168: the loop over the layout is over, the one over the
\* triangles begins
ExecuteTriangles ==
    /\ pc = "attributes"
    /\ attr > Len(layout)
    /\ IF Len(obj.mesh.loop_triangles) = 0
       THEN pc' = "name" /\ UNCHANGED <<tri, corner>>
       ELSE pc' = "vertices" /\ tri' = 1 /\ corner' = 1
    /\ UNCHANGED <<obj, items, self, axis_matrix, layout, stride, vertex_count,
                   texture_name, out, attr, file, writes, report>>

\* execute, lines 168-184: one pass of the inner loop
ExecuteVertex ==
    /\ pc = "vertices"
    /\ out' = out \o VertexBytes(self, obj.mesh, axis_matrix, layout,
                                 LoopIndex(obj.mesh, tri, corner))
    /\ IF corner < Len(obj.mesh.loop_triangles[tri].loops)
       THEN /\ corner' = corner + 1
            /\ UNCHANGED <<tri, pc>>
       ELSE IF tri < Len(obj.mesh.loop_triangles)
       THEN /\ tri' = tri + 1
            /\ corner' = 1
            /\ pc' = pc
       ELSE /\ pc' = "name"
            /\ UNCHANGED <<tri, corner>>
    /\ UNCHANGED <<obj, items, self, axis_matrix, layout, stride, vertex_count,
                   texture_name, attr, file, writes, report>>

\* execute, lines 186-187: the texture name
ExecuteName ==
    /\ pc = "name"
    /\ out' = out \o NameBytes(texture_name)
    /\ pc' = "write"
    /\ UNCHANGED <<obj, items, self, axis_matrix, layout, stride, vertex_count,
                   texture_name, attr, tri, corner, file, writes, report>>

\* execute, lines 189-194: the file is written and the export reported
ExecuteWrite ==
    /\ pc = "write"
    /\ file' = [exists |-> TRUE, data |-> out]
    /\ writes' = writes + 1
    /\ report' = Append(report, <<"INFO", Len(out)>>)
    /\ pc' = "FINISHED"
    /\ UNCHANGED <<obj, items, self, axis_matrix, layout, stride, vertex_count,
                   texture_name, out, attr, tri, corner>>

Next ==
    \/ TextureItems
    \/ SetProperties
    \/ ExecuteCancel
    \/ ExecuteHeader
    \/ ExecuteAttribute
    \/ ExecuteTriangles
    \/ ExecuteVertex
    \/ ExecuteName
    \/ ExecuteWrite

Spec == Init /\ [][Next]_vars

(***************************************************************************)
(* What a consumer reads from a buffer: decoding, written independently of *)
(* the packing above.                                                      *)
(***************************************************************************)
\* the little-endian unsigned 32-bit integer at offset off
UIntAt(buf, off) ==
    buf[off + 1] + 256 * buf[off + 2] + 65536 * buf[off + 3] + 16777216 * buf[off + 4]

\* the integer-valued single whose four bytes b, most significant first, are given
DecodeFloat(b) ==
    LET negative == b[1] >= 128
        biased == (b[1] % 128) * 2 + (b[2] \div 128)
        mant == (b[2] % 128) * 65536 + b[3] * 256 + b[4]
        magnitude == IF biased = 0 /\ mant = 0 THEN 0
                     ELSE (8388608 + mant) \div Pow2(23 - (biased - 127))
    IN  IF negative THEN -magnitude ELSE magnitude

\* the float at offset off of a buffer whose floats are in the given byte order
FloatAt(buf, off, order) ==
    LET b == SubSeq(buf, off + 1, off + 4)
    IN  DecodeFloat(IF order = ">" THEN b ELSE Reverse(b))

RECURSIVE DecodeUtf8(_)
DecodeUtf8(b) ==
    IF b = <<>> THEN <<>>
    ELSE IF b[1] < 128 THEN <<b[1]>> \o DecodeUtf8(SubSeq(b, 2, Len(b)))
    ELSE IF b[1] < 224
         THEN <<(b[1] - 192) * 64 + (b[2] - 128)>> \o DecodeUtf8(SubSeq(b, 3, Len(b)))
    ELSE <<(b[1] - 224) * 4096 + (b[2] - 128) * 64 + (b[3] - 128)>>
         \o DecodeUtf8(SubSeq(b, 4, Len(b)))

\* the header fields of a buffer that holds a whole header
HdrVertexCount(buf) == UIntAt(buf, 4)
HdrStride(buf) == UIntAt(buf, 8)
HdrAttributeCount(buf) == UIntAt(buf, 12)
HdrAttributeRecordSize(buf) == UIntAt(buf, 16)
HdrTextureNameLength(buf) == UIntAt(buf, 20)
HdrHeaderSize(buf) == UIntAt(buf, 24)

HasHeader(buf) == Len(buf) >= 28

\* where the vertex stream begins
StreamStart(buf) == HdrHeaderSize(buf) + HdrAttributeCount(buf) * HdrAttributeRecordSize(buf)

\* the number of whole vertex records a buffer holds so far
RecordsIn(buf) ==
    IF ~HasHeader(buf) \/ Len(buf) < StreamStart(buf) THEN 0
    ELSE LET n == (Len(buf) - StreamStart(buf)) \div HdrStride(buf)
         IN  IF n > HdrVertexCount(buf) THEN HdrVertexCount(buf) ELSE n

\* the j-th float of the k-th vertex record
RecordFloat(buf, k, j, order) ==
    FloatAt(buf, StreamStart(buf) + (k - 1) * HdrStride(buf) + 4 * (j - 1), order)

RecordPosition(buf, k, order) == [j \in 1..3 |-> RecordFloat(buf, k, j, order)]
RecordUV(buf, k, order) == [j \in 1..2 |-> RecordFloat(buf, k, 3 + j, order)]
RecordColor(buf, k, order) == [j \in 1..4 |-> RecordFloat(buf, k, 5 + j, order)]

\* the k-th corner of the mesh, triangle by triangle and corner by corner: its
\* loop index and the position of its vertex
CornerLoop(mesh, k) == mesh.loop_triangles[((k - 1) \div 3) + 1].loops[((k - 1) % 3) + 1]
CornerCo(mesh, k) == mesh.vertices[mesh.loops[CornerLoop(mesh, k)].vertex_index]

IsMesh == ~obj.none /\ obj.type = "MESH"

\* execute has got past its check of the active object
Executing == pc \in {"attributes", "vertices", "name", "write", "FINISHED"}

AxisLetter(axis) == axis[Len(axis)]
Parallel(forward, up) == AxisLetter(forward) = AxisLetter(up)

Dot(a, b) == a[1] * b[1] + a[2] * b[2] + a[3] * b[3]
Column(m, j) == <<m[1][j], m[2][j], m[3][j]>>

TestPositions ==
    { <<x, y, z>> : x \in -MaxCoord..MaxCoord, y \in -MaxCoord..MaxCoord,
                    z \in -MaxCoord..MaxCoord }

(***************************************************************************)
(* The claims.                                                             *)
(***************************************************************************)

\* C1: the file of a finished export is headerSize + attributeCount *
\* attributeRecordSize + vertexCount * stride + textureNameLength bytes long, these
\* being the values of its own header; headerSize is 28, and the vertex stream
\* (all but the header, the attribute table and the name) is vertexCount * stride
\* bytes, one record for each corner of the mesh.
C1_FileLength ==
    pc = "FINISHED" =>
        /\ file.exists
        /\ HasHeader(file.data)
        /\ Len(file.data) = HdrHeaderSize(file.data)
              + HdrAttributeCount(file.data) * HdrAttributeRecordSize(file.data)
              + HdrVertexCount(file.data) * HdrStride(file.data)
              + HdrTextureNameLength(file.data)
        /\ HdrHeaderSize(file.data) = 28
        /\ SubSeq(file.data, 1, 4) = <<77, 83, 72, 48>>
        /\ Len(file.data) - 28 - 9 - Len(texture_name)
              = HdrVertexCount(file.data) * HdrStride(file.data)
        /\ HdrVertexCount(file.data) = 3 * Len(obj.mesh.loop_triangles)

C1_Witness ==
    /\ pc = "FINISHED"
    /\ Len(obj.mesh.loop_triangles) = 2
    /\ Len(texture_name) > 0
    /\ self.endian = ">"
    /\ self.flip_uv_u
    /\ self.forward_axis = <<"-", "X">>

\* C2: with parallel forward and up axes, or a mesh without triangles, execute
\* produces no byte, writes no file and does not finish.
C2_PreconditionReported ==
    (IsMesh /\ Executing
        /\ (Parallel(self.forward_axis, self.up_axis)
            \/ Len(obj.mesh.loop_triangles) = 0))
    => (out = <<>> /\ ~file.exists /\ pc # "FINISHED")

\* C3 as stated: with forward Y and up Z every vertex position is written
\* unchanged.
C3_DefaultIsIdentity ==
    (pc = "FINISHED" /\ self.forward_axis = <<"Y">> /\ self.up_axis = <<"Z">>) =>
        \A k \in 1..RecordsIn(file.data) :
            RecordPosition(file.data, k, self.endian) = CornerCo(obj.mesh, k)

\* C3 as amended: with forward Y and up Z the transform exchanges y and z: the
\* position (x, y, z) of every vertex is written as (x, z, y).
C3_DefaultSwapsYZ ==
    (pc = "FINISHED" /\ self.forward_axis = <<"Y">> /\ self.up_axis = <<"Z">>) =>
        /\ axis_matrix = <<<<1, 0, 0>>, <<0, 0, 1>>, <<0, 1, 0>>>>
        /\ RecordsIn(file.data) = 3 * Len(obj.mesh.loop_triangles)
        /\ \A k \in 1..RecordsIn(file.data) :
              LET co == CornerCo(obj.mesh, k)
              IN  RecordPosition(file.data, k, self.endian) = <<co[1], co[3], co[2]>>

C3_Witness ==
    /\ pc = "FINISHED"
    /\ self.forward_axis = <<"Y">>
    /\ self.up_axis = <<"Z">>
    /\ RecordsIn(file.data) = 6
    /\ \E k \in 1..6 : CornerCo(obj.mesh, k)[2] # CornerCo(obj.mesh, k)[3]

\* C4: for a forward and an up axis that are not parallel the matrix execute got
\* from build_axis_matrix has the columns forward x up, up and forward, which are
\* unit vectors perpendicular to each other, and it keeps the length of every
\* position: of the vertices of the mesh, and, tried as the matrix is returned,
\* of the test positions.
C4_Orthonormal ==
    (IsMesh /\ Executing /\ ~Parallel(self.forward_axis, self.up_axis)) =>
        LET fwd == axis_vector(self.forward_axis)
            upv == axis_vector(self.up_axis)
        IN  /\ Column(axis_matrix, 1) = cross(fwd, upv)
            /\ Column(axis_matrix, 2) = upv
            /\ Column(axis_matrix, 3) = fwd
            /\ \A i, j \in 1..3 :
                  Dot(Column(axis_matrix, i), Column(axis_matrix, j))
                     = IF i = j THEN 1 ELSE 0
            /\ (pc = "attributes" /\ attr = 1) =>
                  \A p \in TestPositions :
                     Dot(MatVec(axis_matrix, p), MatVec(axis_matrix, p)) = Dot(p, p)
            /\ \A i \in 1..Len(obj.mesh.vertices) :
                  LET p == obj.mesh.vertices[i]
                  IN  Dot(MatVec(axis_matrix, p), MatVec(axis_matrix, p)) = Dot(p, p)

C4_Witness ==
    /\ IsMesh
    /\ pc = "attributes"
    /\ self.forward_axis = <<"-", "X">>
    /\ self.up_axis = <<"Z">>
    /\ Len(obj.mesh.vertices) > 0

\* the bytes a data format code stands for: 1 is two floats, 2 three, 3 four
FormatSize(dataformat) == 4 * (dataformat + 1)

\* the i-th record of the attribute table of a buffer
TableRecord(buf, i) ==
    SubSeq(buf, HdrHeaderSize(buf) + (i - 1) * HdrAttributeRecordSize(buf) + 1,
           HdrHeaderSize(buf) + i * HdrAttributeRecordSize(buf))

\* the corners execute has written so far
CornersWritten ==
    CASE pc = "vertices" -> 3 * (tri - 1) + (corner - 1)
      [] pc \in {"name", "write", "FINISHED"} -> 3 * Len(obj.mesh.loop_triangles)
      [] OTHER -> 0

\* the vertex records a state is answerable for: the one just written while the
\* loop runs, and all of them when the export has finished
RecordsToCheck ==
    IF pc = "FINISHED" THEN 1..RecordsIn(out)
    ELSE IF pc \in {"vertices", "name"} /\ CornersWritten > 0 THEN {CornersWritten}
    ELSE {}

\* C5: the stride of the header is the sum of the sizes of the attributes of the
\* attribute table of the same buffer, 12 + 8 + 16 = 36; every vertex written
\* adds that many bytes; and the header's attribute count, 3, is the number of
\* records of the table, each attributeRecordSize = 3 bytes long.
C5_Stride ==
    (IsMesh /\ Executing) =>
        /\ HasHeader(out)
        /\ HdrAttributeCount(out) = 3
        /\ HdrAttributeRecordSize(out) = 3
        /\ HdrStride(out) = 36
        /\ pc = "attributes" => Len(out) = HdrHeaderSize(out) + 3 * (attr - 1)
        /\ pc # "attributes" =>
              /\ Len(out) >= StreamStart(out)
              /\ HdrStride(out)
                    = FormatSize(TableRecord(out, 1)[2]) + FormatSize(TableRecord(out, 2)[2])
                      + FormatSize(TableRecord(out, 3)[2])
              /\ <<FormatSize(TableRecord(out, 1)[2]), FormatSize(TableRecord(out, 2)[2]),
                   FormatSize(TableRecord(out, 3)[2])>> = <<12, 8, 16>>
        /\ pc \in {"vertices", "name"} =>
              Len(out) = StreamStart(out) + CornersWritten * HdrStride(out)

C5_Witness ==
    /\ pc = "vertices"
    /\ tri = 2
    /\ corner = 3
    /\ Len(out) = 28 + 9 + 5 * 36

\* C6: a corner of a mesh without an active UV layer is written with the texture
\* coordinate (0, 0), and one of a mesh without an active vertex color layer with
\* the color (1, 1, 1, 1), whatever the flip flags and the byte order; and execute
\* is not cancelled for the missing layer.
C6_Fallback ==
    IsMesh =>
        /\ pc # "CANCELLED"
        /\ Executing =>
              /\ RecordsIn(out) = CornersWritten
              /\ \A k \in RecordsToCheck :
                    /\ obj.mesh.uv_layers.none => RecordUV(out, k, self.endian) = <<0, 0>>
                    /\ obj.mesh.vertex_colors.none =>
                          RecordColor(out, k, self.endian) = <<1, 1, 1, 1>>

C6_Witness ==
    /\ pc = "FINISHED"
    /\ obj.mesh.uv_layers.none
    /\ obj.mesh.vertex_colors.none
    /\ self.flip_uv_u
    /\ self.flip_uv_v
    /\ self.endian = ">"
    /\ RecordsIn(out) = 6

\* the bytes a code point takes in UTF-8
Utf8Width(cp) == IF cp < 128 THEN 1 ELSE IF cp < 2048 THEN 2 ELSE 3

\* C7: the header's textureNameLength is the number of bytes of the UTF-8 form of
\* the texture name, and the file ends with exactly those bytes, right after the
\* vertex stream; for the empty name it is 0 and the file ends with the vertex
\* stream.
C7_TextureName ==
    pc = "FINISHED" =>
        LET n == HdrTextureNameLength(file.data)
            tail == SubSeq(file.data, Len(file.data) - n + 1, Len(file.data))
        IN  /\ n = Sum([i \in 1..Len(self.texture_name) |-> Utf8Width(self.texture_name[i])])
            /\ DecodeUtf8(tail) = self.texture_name
            /\ Len(file.data) - n
                  = StreamStart(file.data) + 3 * Len(obj.mesh.loop_triangles) * 36
            /\ self.texture_name = <<>> => n = 0

\* a name whose UTF-8 form is longer than the name
C7_Witness ==
    /\ pc = "FINISHED"
    /\ self.texture_name = <<98, 214, 46, 112>>
    /\ HdrTextureNameLength(file.data) = 5
    /\ SubSeq(file.data, Len(file.data) - 4, Len(file.data)) = <<98, 195, 150, 46, 112>>

\* the empty name, after one triangle
C7_WitnessEmpty ==
    /\ pc = "FINISHED"
    /\ self.texture_name = <<>>
    /\ Len(file.data) = 28 + 9 + 36 * 3

\* a slot whose material uses nodes and has no image to resolve
Unresolved(slot) ==
    /\ ~slot.material.none
    /\ slot.material.use_nodes
    /\ \/ \A i \in 1..Len(slot.material.nodes) : slot.material.nodes[i].type # "TEX_IMAGE"
       \/ \E i \in 1..Len(slot.material.nodes) :
             /\ slot.material.nodes[i].type = "TEX_IMAGE"
             /\ slot.material.nodes[i].image.none
             /\ \A j \in 1..(i - 1) : slot.material.nodes[j].type # "TEX_IMAGE"

\* C8: when a material slot of the object has no resolvable texture image, the
\* resolution of the texture names does not fail.
C8_ResolutionDoesNotFail ==
    (IsMesh /\ \E i \in 1..Len(obj.material_slots) : Unresolved(obj.material_slots[i]))
        => pc # "RAISED"

OtherEndian(e) == IF e = "<" THEN ">" ELSE "<"

\* C9: the buffer of an export and the one the same export has with the other
\* byte order are as long as each other, have the same header, attribute table
\* and texture name, which are little-endian, and every float of the vertex stream
\* of the one is the byte reversal of that float of the other.
C9_EndianFrame ==
    pc = "FINISHED" =>
        LET other == Serialize([self EXCEPT !.endian = OtherEndian(self.endian)], obj.mesh)
            start == StreamStart(out)
            floats == (HdrVertexCount(out) * HdrStride(out)) \div 4
            n == HdrTextureNameLength(out)
        IN  /\ Serialize(self, obj.mesh) = out
            /\ Len(other) = Len(out)
            /\ SubSeq(other, 1, start) = SubSeq(out, 1, start)
            /\ SubSeq(other, Len(other) - n + 1, Len(other))
                  = SubSeq(out, Len(out) - n + 1, Len(out))
            /\ HdrVertexCount(out) = 3 * Len(obj.mesh.loop_triangles)
            /\ HdrTextureNameLength(out) = Len(texture_name)
            /\ start + 4 * floats + n = Len(out)
            /\ \A f \in 1..floats :
                  SubSeq(other, start + 4 * (f - 1) + 1, start + 4 * f)
                     = Reverse(SubSeq(out, start + 4 * (f - 1) + 1, start + 4 * f))

C9_Witness ==
    /\ pc = "FINISHED"
    /\ self.endian = ">"
    /\ HdrVertexCount(out) = 6
    /\ Len(texture_name) > 0
    /\ \E f \in 1..54 :
          SubSeq(out, 37 + 4 * (f - 1) + 1, 37 + 4 * f)
             # Reverse(SubSeq(out, 37 + 4 * (f - 1) + 1, 37 + 4 * f))

\* the texture coordinate and the color execute is to write for a loop
ExpectedUV(l) ==
    IF obj.mesh.uv_layers.none THEN <<0, 0>>
    ELSE LET uv == obj.mesh.uv_layers.data[l].uv
         IN  << IF self.flip_uv_u THEN 1 - uv[1] ELSE uv[1],
                IF self.flip_uv_v THEN 1 - uv[2] ELSE uv[2] >>

ExpectedColor(l) ==
    IF obj.mesh.vertex_colors.none THEN <<1, 1, 1, 1>>
    ELSE obj.mesh.vertex_colors.data[l].color

\* the whole length of the buffer of the export under way
FullLength == 28 + 9 + 3 * Len(obj.mesh.loop_triangles) * 36 + Len(texture_name)

====
